---- MODULE Spec2Model ----
(***************************************************************************)
(* A model of mei_to_midi.py: the XML sanitizer remove_lyrics_from_mei,    *)
(* the manual MIDI track assembly and per-document file handling of        *)
(* convert_mei_to_midi, and the batch loop of process_directory.           *)
(*                                                                         *)
(* Three specifications share the variables below; each drives one part    *)
(* of the program and leaves the other parts' variables untouched:         *)
(*   SpecSan    remove_lyrics_from_mei on bounded document trees           *)
(*   SpecAsm    the track assembly loops on bounded flattened scores       *)
(*   SpecBatch  process_directory / convert_mei_to_midi on a bounded       *)
(*              directory listing and file system                          *)
(***************************************************************************)
EXTENDS Integers, Sequences, FiniteSets, TLC

VARIABLES
    \* ---- remove_lyrics_from_mei ----
    mei_data,       \* the input text (a Python str: never mutated)
    elems,          \* the parsed Element objects, by identity: tag, attrib, children
    san_pc,         \* position in remove_lyrics_from_mei
    todo,           \* the rest of the list the current for-loop iterates
    san_ret,        \* the returned text, NotReturned before the return
    san_failed,     \* the step whose exception the handler of line 70 caught, "none" otherwise
    \* ---- track assembly ----
    score,          \* score.flat: the flattened, time-ordered objects
    asm_pc,         \* position in the assembly try-block
    asm_i,          \* index of the loop over the filtered view
    mt_events,      \* mt.events
    asm_result,     \* "ok" after mf.close(), "error" in the handler of line 142
    \* ---- process_directory / convert_mei_to_midi ----
    fs,             \* the file system: path -> content, for the files that exist
    listing,        \* os.listdir(input_dir), taken once before the loop
    output_dir,     \* the output_dir argument, None when not given
    dir_pc,         \* position in process_directory
    idx,            \* index of the for-loop over listing
    success_count,
    failed_count,
    cv_pc,          \* position in convert_mei_to_midi
    input_file,
    output_file,
    temp_file,
    result,         \* the local variable result of convert_mei_to_midi
    returned,       \* per index of listing: what convert_mei_to_midi returned
    hist            \* observation of the current/last call, for the properties

sanVars == <<mei_data, elems, san_pc, todo, san_ret, san_failed>>
asmVars == <<score, asm_pc, asm_i, mt_events, asm_result>>
dirVars == <<fs, listing, output_dir, dir_pc, idx, success_count, failed_count,
             cv_pc, input_file, output_file, temp_file, result, returned, hist>>
vars == <<sanVars, asmVars, dirVars>>

None == "<None>"

(***************************************************************************)
(* Bounds of the model.                                                    *)
(***************************************************************************)
MaxNodes == 3       \* elements of an input document
MaxScoreLen == 3    \* objects of a flattened score
MaxFiles == 3       \* entries of the directory listing

(***************************************************************************)
(* Document trees.  An element is an object with a tag, two attributes     *)
(* (None when absent) and an ordered list of children; there is no upward  *)
(* reference.  Elements are named 1..n in document order, the root is 1.   *)
(***************************************************************************)
Root == 1
NoElement == 0

StandardWordpos == {"s", "i", "m", "t"}

\* The attribute combinations input elements carry.
Labels ==
    {[tag |-> "note", wordpos |-> None, n |-> None],
     [tag |-> "note", wordpos |-> "u", n |-> "abc"],
     [tag |-> "verse", wordpos |-> None, n |-> None]}
    \cup {[tag |-> "syl", wordpos |-> w, n |-> None] : w \in {None, "t", "u", "x"}}
    \cup {[tag |-> "measure", wordpos |-> None, n |-> m] : m \in {None, "", "abc", "7"}}

RECURSIVE AncestorsOrSelf(_, _)
AncestorsOrSelf(par, i) ==
    IF i = Root THEN {Root} ELSE {i} \cup AncestorsOrSelf(par, par[i])

\* Parent arrays that number the elements in document order.
ParentArrays(n) ==
    {par \in [2..n -> 1..n] :
        /\ \A i \in 2..n : par[i] < i
        /\ \A i \in 3..n : par[i] \in AncestorsOrSelf(par, i - 1)}

RECURSIVE ChildrenOf(_, _, _)
ChildrenOf(par, n, e) ==
    IF n < 2 THEN <<>>
    ELSE ChildrenOf(par, n - 1, e) \o (IF par[n] = e THEN <<n>> ELSE <<>>)

MakeElems(n, par, lab) ==
    [e \in 1..n |-> [tag |-> lab[e].tag, wordpos |-> lab[e].wordpos, n |-> lab[e].n,
                     children |-> ChildrenOf(par, n, e)]]

NoElems == <<>>

(***************************************************************************)
(* Texts.  A text is well-formed XML with a document, or malformed.  The   *)
(* serializer writes its own namespace prefixes (ns0:), so its output is   *)
(* not the source text even when the tree is the same.                     *)
(***************************************************************************)
SourceText(doc) == [wf |-> TRUE, form |-> "source", doc |-> doc]
MalformedText == [wf |-> FALSE, form |-> "source", doc |-> NoElems]
NotReturned == [wf |-> FALSE, form |-> "none", doc |-> NoElems]

\* ET.fromstring: the tree of a well-formed text; raises on a malformed one.
fromstring_raises(text) == ~text.wf
fromstring(text) == text.doc

RECURSIVE Iter(_, _)
RECURSIVE IterAll(_, _)
\* Element.iter(): the element and its descendants in document order.
Iter(es, e) == <<e>> \o IterAll(es, es[e].children)
IterAll(es, cs) ==
    IF cs = <<>> THEN <<>> ELSE Iter(es, Head(cs)) \o IterAll(es, Tail(cs))

SeqToSet(s) == {s[i] : i \in 1..Len(s)}

\* ET.tostring: the elements reachable from the root, re-serialized.
ReachableElems(es) == [e \in SeqToSet(Iter(es, Root)) |-> es[e]]
tostring(es) == [wf |-> TRUE, form |-> "ns0", doc |-> ReachableElems(es)]

\* SelectSeq with the element table at hand.
RECURSIVE WithTag(_, _, _)
WithTag(es, s, tag) ==
    IF s = <<>> THEN <<>>
    ELSE (IF es[Head(s)].tag = tag THEN <<Head(s)>> ELSE <<>>) \o WithTag(es, Tail(s), tag)

\* root.findall('.//mei:TAG'): the descendants of the root with the tag, in
\* document order; the root itself is not a candidate.
FindAllBelowRootDirect(es, tag) == WithTag(es, es[Root].children, tag)
FindAllBelowRoot(es, tag) == WithTag(es, Tail(Iter(es, Root)), tag)

\* parent.findall('mei:TAG'): the direct children with the tag.
FindChildren(es, p, tag) == WithTag(es, es[p].children, tag)

\* The scan of lines 40-43 and 58-61: the first element of root.iter() that
\* has x among its children, NoElement (Python's None) when there is none.
RECURSIVE FirstHolding(_, _, _)
FirstHolding(es, s, x) ==
    IF s = <<>> THEN NoElement
    ELSE IF x \in SeqToSet(es[Head(s)].children) THEN Head(s)
    ELSE FirstHolding(es, Tail(s), x)
FindParent(es, x) == FirstHolding(es, Iter(es, Root), x)

\* list.index
RECURSIVE IndexOf(_, _)
IndexOf(s, x) == IF Head(s) = x THEN 0 ELSE 1 + IndexOf(Tail(s), x)

\* Element.remove: the child list without the first occurrence of x.
RECURSIVE WithoutFirst(_, _)
WithoutFirst(s, x) ==
    IF s = <<>> THEN <<>>
    ELSE IF Head(s) = x THEN Tail(s) ELSE <<Head(s)>> \o WithoutFirst(Tail(s), x)
RemoveChild(es, p, x) == [es EXCEPT ![p].children = WithoutFirst(@, x)]

\* str(i) of a non-negative int
Digits == <<"0", "1", "2", "3", "4", "5", "6", "7", "8", "9">>
RECURSIVE Str(_)
Str(i) == IF i < 10 THEN Digits[i + 1] ELSE Str(i \div 10) \o Digits[(i % 10) + 1]

\* int(s) succeeds: an optional sign and decimal digits
IsDigit(c) == \E d \in 1..10 : Digits[d] = c
AllDigits(s) == Len(s) > 0 /\ \A k \in 1..Len(s) : IsDigit(SubSeq(s, k, k))
ParsesAsInt(s) ==
    /\ s # None
    /\ \/ AllDigits(s)
       \/ Len(s) > 1 /\ SubSeq(s, 1, 1) \in {"+", "-"} /\ AllDigits(SubSeq(s, 2, Len(s)))

\* Lines 28-34: the wordpos a syl element is left with.
NormalizedWordpos(w) ==
    IF w \in StandardWordpos THEN w
    ELSE IF w = "u" THEN "i"
    ELSE "s"

\* Lines 50-54: the measure number is truthy and int() raises ValueError.
NeedsRepairAnyNumber(num) == num # None /\ num # ""
NeedsRepair(num) == num # None /\ num # "" /\ ~ParsesAsInt(num)

\* Line 73: what the handler returns.
ReturnOnErrorSerialized(text, es) == IF text.wf THEN tostring(es) ELSE text
ReturnOnError(text, es) == text

(***************************************************************************)
(* remove_lyrics_from_mei, one action per statement or loop iteration.     *)
(***************************************************************************)
SanInit ==
    /\ \/ \E n \in 1..MaxNodes : \E par \in ParentArrays(n) : \E lab \in [1..n -> Labels] :
             mei_data = SourceText(MakeElems(n, par, lab))
       \/ mei_data = MalformedText
    /\ elems = NoElems
    /\ san_pc = "parse"
    /\ todo = <<>>
    /\ san_ret = NotReturned
    /\ san_failed = "none"

\* Line 21, then the findall of line 27.
Parse ==
    /\ san_pc = "parse"
    /\ IF fromstring_raises(mei_data)
       THEN /\ san_ret' = ReturnOnError(mei_data, elems)
            /\ san_failed' = "parse"
            /\ san_pc' = "done"
            /\ UNCHANGED <<elems, todo>>
       ELSE /\ elems' = fromstring(mei_data)
            /\ todo' = FindAllBelowRoot(fromstring(mei_data), "syl")
            /\ san_pc' = "syl"
            /\ UNCHANGED <<san_ret, san_failed>>
    /\ UNCHANGED <<mei_data, asmVars, dirVars>>

\* Lines 27-34, one iteration.
NormalizeSyl ==
    /\ san_pc = "syl" /\ todo # <<>>
    /\ elems' = [elems EXCEPT ![Head(todo)].wordpos = NormalizedWordpos(@)]
    /\ todo' = Tail(todo)
    /\ UNCHANGED <<mei_data, san_pc, san_ret, san_failed, asmVars, dirVars>>

\* The loop of line 27 is exhausted: the findall of line 37.
BeginVerses ==
    /\ san_pc = "syl" /\ todo = <<>>
    /\ todo' = FindAllBelowRoot(elems, "verse")
    /\ san_pc' = "verse"
    /\ UNCHANGED <<mei_data, elems, san_ret, san_failed, asmVars, dirVars>>

\* Lines 37-45, one iteration.
RemoveVerse ==
    /\ san_pc = "verse" /\ todo # <<>>
    /\ LET verse == Head(todo)
           parent_note == FindParent(elems, verse)
       IN  elems' = IF parent_note # NoElement
                    THEN RemoveChild(elems, parent_note, verse)
                    ELSE elems
    /\ todo' = Tail(todo)
    /\ UNCHANGED <<mei_data, san_pc, san_ret, san_failed, asmVars, dirVars>>

\* The loop of line 37 is exhausted: the findall of line 48.
BeginMeasures ==
    /\ san_pc = "verse" /\ todo = <<>>
    /\ todo' = FindAllBelowRoot(elems, "measure")
    /\ san_pc' = "measure"
    /\ UNCHANGED <<mei_data, elems, san_ret, san_failed, asmVars, dirVars>>

\* Lines 48-65, one iteration.
RepairMeasure ==
    /\ san_pc = "measure" /\ todo # <<>>
    /\ LET measure == Head(todo)
           parent == FindParent(elems, measure)
       IN  elems' = IF NeedsRepair(elems[measure].n) /\ parent # NoElement
                    THEN [elems EXCEPT ![measure].n =
                            Str(IndexOf(FindChildren(elems, parent, "measure"), measure))]
                    ELSE elems
    /\ todo' = Tail(todo)
    /\ UNCHANGED <<mei_data, san_pc, san_ret, san_failed, asmVars, dirVars>>

\* Line 68.
Serialize ==
    /\ san_pc = "measure" /\ todo = <<>>
    /\ san_ret' = tostring(elems)
    /\ san_pc' = "done"
    /\ UNCHANGED <<mei_data, elems, todo, san_failed, asmVars, dirVars>>

\* Lines 70-73: an exception raised by any statement after the parse (the
\* interpreter's resource errors are Exceptions too) is caught by the handler.
RaiseInside ==
    /\ san_pc \in {"syl", "verse", "measure"}
    /\ san_ret' = ReturnOnError(mei_data, elems)
    /\ san_failed' = san_pc
    /\ san_pc' = "done"
    /\ UNCHANGED <<mei_data, elems, todo, asmVars, dirVars>>

(***************************************************************************)
(* Properties of remove_lyrics_from_mei (checked under SpecSan).           *)
(***************************************************************************)
SanDone == san_pc = "done"
SanSucceeded == san_pc = "done" /\ san_failed = "none"
InTree == mei_data.doc
OutTree == san_ret.doc
HasNoVerse(es) == \A e \in DOMAIN es : es[e].tag # "verse"

\* C1 as claimed: after a sanitation that completed, the returned tree holds
\* no verse element at all, a verse that is the document root included.
C1_NoVerseAtAll ==
    SanSucceeded => \A e \in DOMAIN OutTree : OutTree[e].tag # "verse"

\* C1 as amended: after a sanitation that completed, no element of the
\* returned tree other than the document root is a verse, however many
\* verses a parent holds and however deep or nested they are.
C1_NoVerseBelowRoot ==
    SanSucceeded =>
        /\ Root \in DOMAIN OutTree
        /\ \A e \in DOMAIN OutTree : e # Root => OutTree[e].tag # "verse"

\* A completed sanitation of a document with a verse nested in a non-root verse.
C1_Witness ==
    /\ SanSucceeded
    /\ InTree[Root].tag # "verse"
    /\ \E v \in DOMAIN InTree : \E w \in DOMAIN InTree :
          /\ v # Root /\ InTree[v].tag = "verse" /\ InTree[w].tag = "verse"
          /\ w \in SeqToSet(InTree[v].children)

\* C2 as claimed: after a sanitation that completed, every measure's n, if
\* present, parses as an integer, and a measure whose n was present and did
\* not parse (the empty string and a root measure included) carries the
\* decimal string of its zero-based position among its parent's measure children.
C2_MeasureNumbersRepaired ==
    SanSucceeded =>
        \A e \in DOMAIN OutTree :
            (OutTree[e].tag = "measure" /\ InTree[e].n # None) =>
                /\ ParsesAsInt(OutTree[e].n)
                /\ ~ParsesAsInt(InTree[e].n) =>
                      /\ FindParent(OutTree, e) # NoElement
                      /\ OutTree[e].n = Str(IndexOf(FindChildren(OutTree,
                                              FindParent(OutTree, e), "measure"), e))

\* C3 as claimed: after a sanitation that completed, every syl element of the
\* returned tree has a wordpos among s, i, m, t: a standard one is kept, "u"
\* became "i", anything else or an absent one became "s".
C3_WordposNormalized ==
    SanSucceeded =>
        \A e \in DOMAIN OutTree :
            OutTree[e].tag = "syl" =>
                /\ OutTree[e].wordpos \in StandardWordpos
                /\ InTree[e].wordpos \in StandardWordpos => OutTree[e].wordpos = InTree[e].wordpos
                /\ InTree[e].wordpos = "u" => OutTree[e].wordpos = "i"
                /\ InTree[e].wordpos \notin (StandardWordpos \cup {"u"}) => OutTree[e].wordpos = "s"

\* C4: the function always returns, and a call in which any step failed
\* returns exactly the input text, whatever was mutated before the failure.
C4_FailureReturnsOriginal ==
    /\ san_pc \in {"parse", "syl", "verse", "measure", "done"}
    /\ (SanDone /\ san_failed # "none") => san_ret = mei_data
    /\ SanDone => san_ret # NotReturned

\* A failure after the tree was already mutated.
C4_Witness ==
    /\ SanDone /\ san_failed = "measure"
    /\ elems # InTree
    /\ san_ret = mei_data

\* C5 as claimed: for an input without verse elements the returned tree is
\* the input tree: same elements, children and attribute values.
C5_NoVerseInputUnchanged ==
    (SanDone /\ mei_data.wf /\ HasNoVerse(InTree)) => OutTree = InTree

\* C5 as amended: for an input without verse elements the returned tree has
\* the same elements, the same children in the same order and the same
\* attribute values, except the wordpos of a non-root syl that is not one of
\* s, i, m, t and the n of a non-root measure that is present, non-empty and
\* not an integer.
C5_NoVerseInputFrame ==
    (SanDone /\ mei_data.wf /\ HasNoVerse(InTree)) =>
        /\ DOMAIN OutTree = DOMAIN InTree
        /\ \A e \in DOMAIN InTree :
              /\ OutTree[e].tag = InTree[e].tag
              /\ OutTree[e].children = InTree[e].children
              /\ (e = Root \/ InTree[e].tag # "syl" \/ InTree[e].wordpos \in StandardWordpos)
                    => OutTree[e].wordpos = InTree[e].wordpos
              /\ (e = Root \/ InTree[e].tag # "measure" \/ InTree[e].n \in {None, ""}
                    \/ ParsesAsInt(InTree[e].n))
                    => OutTree[e].n = InTree[e].n

\* A completed sanitation of a verse-free document in which a syl was
\* rewritten while a numbered measure was left as it was.
C5_Witness ==
    /\ SanSucceeded /\ HasNoVerse(InTree)
    /\ OutTree # InTree
    /\ \E e \in DOMAIN InTree : e # Root /\ InTree[e].tag = "measure" /\ InTree[e].n = "7"

(***************************************************************************)
(* Track assembly (the inner try-block of convert_mei_to_midi).  The score *)
(* is seen through score.flat; the two translators of music21 are taken by *)
(* their interface: one event list per object.                             *)
(***************************************************************************)
Pitches == {60, 64}

\* The objects of a flattened score: tempo indications, notes, chords, rests
\* and objects of other classes (a clef).
ScoreObjects ==
    {[kind |-> "tempo", val |-> <<b>>] : b \in {90, 120}}
    \cup {[kind |-> "note", val |-> <<p>>] : p \in Pitches}
    \cup {[kind |-> "chord", val |-> <<60, 64>>],
          [kind |-> "rest", val |-> <<>>],
          [kind |-> "clef", val |-> <<>>]}

RECURSIVE OfKinds(_, _)
OfKinds(s, kinds) ==
    IF s = <<>> THEN <<>>
    ELSE (IF Head(s).kind \in kinds THEN <<Head(s)>> ELSE <<>>) \o OfKinds(Tail(s), kinds)

\* score.flat.getElementsByClass('TempoIndication')
TempoIndications(sc) == OfKinds(sc, {"tempo"})
\* score.flat.notesAndRests
notesAndRests(sc) == OfKinds(sc, {"note", "chord", "rest"})
isRest(obj) == obj.kind = "rest"

DeltaTime == [type |-> "DeltaTime", time |-> 0, data |-> <<>>]

\* midi.translate.tempoToMidiEvents(t): a list whose first event carries the
\* tempo payload read at line 121.
tempoToMidiEvents(t) ==
    <<[type |-> "TempoPayload", time |-> 0, data |-> t.val],
      [type |-> "DeltaTime", time |-> 0, data |-> <<>>]>>

RECURSIVE NoteOns(_)
NoteOns(ps) ==
    IF ps = <<>> THEN <<>>
    ELSE <<DeltaTime, [type |-> "NOTE_ON", time |-> 0, data |-> <<Head(ps)>>]>> \o NoteOns(Tail(ps))
RECURSIVE NoteOffs(_)
NoteOffs(ps) ==
    IF ps = <<>> THEN <<>>
    ELSE <<DeltaTime, [type |-> "NOTE_OFF", time |-> 0, data |-> <<Head(ps)>>]>> \o NoteOffs(Tail(ps))
\* midi.translate.noteToMidiEvents(n): note-ons then note-offs, one pair per pitch.
noteToMidiEvents(n) == NoteOns(n.val) \o NoteOffs(n.val)

\* Lines 117-122: the event appended for one tempo indication.
SetTempoEvent(t) ==
    [type |-> "SET_TEMPO", time |-> 0, data |-> tempoToMidiEvents(t)[1].data]

\* Lines 131-132: the events appended for one note or chord.
AppendedForNoteFirstOnly(n) == <<noteToMidiEvents(n)[1]>>
AppendedForNote(n) == noteToMidiEvents(n)

Scores == UNION {[1..k -> ScoreObjects] : k \in 0..MaxScoreLen}

AsmInit ==
    /\ score \in Scores
    /\ asm_pc = "tempo"
    /\ asm_i = 1
    /\ mt_events = <<>>
    /\ asm_result = "none"

\* Lines 116-122, one iteration.
AddTempo ==
    /\ asm_pc = "tempo" /\ asm_i <= Len(TempoIndications(score))
    /\ mt_events' = Append(mt_events, SetTempoEvent(TempoIndications(score)[asm_i]))
    /\ asm_i' = asm_i + 1
    /\ UNCHANGED <<score, asm_pc, asm_result, sanVars, dirVars>>

\* The loop of line 116 is exhausted; the loop of line 125 starts.
BeginNotes ==
    /\ asm_pc = "tempo" /\ asm_i > Len(TempoIndications(score))
    /\ asm_pc' = "notes"
    /\ asm_i' = 1
    /\ UNCHANGED <<score, mt_events, asm_result, sanVars, dirVars>>

\* Lines 125-132, one iteration.
AddNoteOrSkipRest ==
    /\ asm_pc = "notes" /\ asm_i <= Len(notesAndRests(score))
    /\ LET n == notesAndRests(score)[asm_i]
       IN  mt_events' = IF isRest(n) THEN mt_events ELSE mt_events \o AppendedForNote(n)
    /\ asm_i' = asm_i + 1
    /\ UNCHANGED <<score, asm_pc, asm_result, sanVars, dirVars>>

\* Lines 135-140: the file is written from the finished track.
WriteMidi ==
    /\ asm_pc = "notes" /\ asm_i > Len(notesAndRests(score))
    /\ asm_pc' = "done"
    /\ asm_result' = "ok"
    /\ UNCHANGED <<score, asm_i, mt_events, sanVars, dirVars>>

\* Lines 142-145: a translator or the writer raises; the assembly is abandoned.
AsmRaise ==
    /\ asm_pc \in {"tempo", "notes"}
    /\ asm_pc' = "done"
    /\ asm_result' = "error"
    /\ UNCHANGED <<score, asm_i, mt_events, sanVars, dirVars>>

SanIdle ==
    /\ mei_data = MalformedText /\ elems = NoElems /\ san_pc = "idle" /\ todo = <<>>
    /\ san_ret = NotReturned /\ san_failed = "none"

(***************************************************************************)
(* Paths and the file system.  Paths are strings; a file's content is a    *)
(* tag and what it was made from.                                          *)
(***************************************************************************)
input_dir == "in"

\* The names a directory listing is drawn from.
FileNames == {"a.mei", "a.mei.temp.mei", "b.MEI", "c.mei", "notes.txt"}

UpperCase == <<"A", "B", "C", "E", "I", "M">>
LowerCase == <<"a", "b", "c", "e", "i", "m">>
LowerChar(c) ==
    IF \E k \in 1..Len(UpperCase) : UpperCase[k] = c
    THEN LowerCase[CHOOSE k \in 1..Len(UpperCase) : UpperCase[k] = c]
    ELSE c
\* str.lower
RECURSIVE lower(_)
lower(str) ==
    IF Len(str) = 0 THEN ""
    ELSE LowerChar(SubSeq(str, 1, 1)) \o lower(SubSeq(str, 2, Len(str)))

\* str.endswith
endswith(str, suffix) ==
    /\ Len(str) >= Len(suffix)
    /\ SubSeq(str, Len(str) - Len(suffix) + 1, Len(str)) = suffix

\* str.rfind, 1-based; 0 when the character does not occur
RECURSIVE RFindFrom(_, _, _)
RFindFrom(str, c, k) ==
    IF k = 0 THEN 0
    ELSE IF SubSeq(str, k, k) = c THEN k
    ELSE RFindFrom(str, c, k - 1)
rfind(str, c) == RFindFrom(str, c, Len(str))

\* os.path.join(directory, name)
join(directory, name) == directory \o "/" \o name

\* os.path.splitext(p)[0]: p up to its last dot, when that dot lies in the
\* last path component and is not one of its leading dots.
splitext_root(path) ==
    LET sepIndex == rfind(path, "/")
        dotIndex == rfind(path, ".")
    IN  IF /\ dotIndex > sepIndex
           /\ \E k \in (sepIndex + 1)..(dotIndex - 1) : SubSeq(path, k, k) # "."
        THEN SubSeq(path, 1, dotIndex - 1)
        ELSE path

\* Line 187
IsMeiFile(filename) == endswith(lower(filename), ".mei")

\* Line 101
TempFileOf(path) == path \o ".temp.mei"

\* Lines 88-89 and 190-194: where the MIDI file of a listed name goes.
OutputPathOf(filename, outdir) ==
    IF outdir # None
    THEN join(outdir, splitext_root(filename) \o ".mid")
    ELSE splitext_root(join(input_dir, filename)) \o ".mid"

NoFiles == <<>>
Exists(files, path) == path \in DOMAIN files
WriteFile(files, path, content) ==
    [q \in DOMAIN files \cup {path} |-> IF q = path THEN content ELSE files[q]]
RemoveFile(files, path) == [q \in DOMAIN files \ {path} |-> files[q]]

OriginalContent(filename) == <<"mei", filename>>
Directory == <<"dir", "">>
Truncated == <<"empty", "">>

RECURSIVE InputFiles(_)
InputFiles(names) ==
    IF names = <<>> THEN NoFiles
    ELSE WriteFile(InputFiles(Tail(names)), join(input_dir, Head(names)),
                   OriginalContent(Head(names)))

\* Listings: os.listdir returns each entry once, in any order.
Listings ==
    {l \in UNION {[1..k -> FileNames] : k \in 0..MaxFiles} :
        \A i \in 1..Len(l) : \A j \in 1..Len(l) : i # j => l[i] # l[j]}

Last(seq) == seq[Len(seq)]

NoHist ==
    [isdir |-> FALSE, attempted |-> <<>>, read |-> Truncated, tempCreated |-> FALSE,
     midiWritten |-> FALSE, written |-> 0, parseFailures |-> 0]

\* Where control goes when the statement at `step` raises: the handler of
\* lines 147-150 for the parse, of lines 142-145 for assembly and writing
\* (both fall through to the cleanup), and of lines 158-161 for everything
\* else in the function, the cleanup's os.remove included (return None).
AfterRaiseCleanupOutsideTry(step) ==
    IF step \in {"parse", "assemble", "write_out"} THEN "cleanup"
    ELSE IF step = "cleanup" THEN "raised"
    ELSE "returned"
AfterRaise(step) ==
    IF step \in {"parse", "assemble", "write_out"} THEN "cleanup" ELSE "returned"

DirInit ==
    /\ output_dir \in {None, "out"}
    /\ \/ /\ listing \in Listings
          /\ \E outExists \in BOOLEAN :
                /\ outExists => output_dir = "out"
                /\ fs = IF outExists
                        THEN WriteFile(InputFiles(listing), "out", Directory)
                        ELSE InputFiles(listing)
          /\ hist = [NoHist EXCEPT !.isdir = TRUE]
       \/ /\ listing = <<>>
          /\ fs = NoFiles
          /\ hist = NoHist
    /\ dir_pc = "start"
    /\ idx = 0
    /\ success_count = 0
    /\ failed_count = 0
    /\ cv_pc = "idle"
    /\ input_file = None
    /\ output_file = None
    /\ temp_file = None
    /\ result = None
    /\ returned = <<>>

\* Lines 174-176
NotADirectory ==
    /\ dir_pc = "start" /\ ~hist.isdir
    /\ dir_pc' = "done"
    /\ UNCHANGED <<fs, listing, output_dir, idx, success_count, failed_count, cv_pc,
                   input_file, output_file, temp_file, result, returned, hist,
                   sanVars, asmVars>>

\* Lines 178-186: the output directory is made when missing, the counters
\* are cleared and the directory is listed.
StartBatch ==
    /\ dir_pc = "start" /\ hist.isdir
    /\ fs' = IF output_dir # None /\ ~Exists(fs, output_dir)
             THEN WriteFile(fs, output_dir, Directory)
             ELSE fs
    /\ dir_pc' = "loop"
    /\ idx' = 1
    /\ UNCHANGED <<listing, output_dir, success_count, failed_count, cv_pc,
                   input_file, output_file, temp_file, result, returned, hist,
                   sanVars, asmVars>>

\* Line 180: os.makedirs raises; nothing in process_directory catches it.
MakedirsRaises ==
    /\ dir_pc = "start" /\ hist.isdir
    /\ output_dir # None /\ ~Exists(fs, output_dir)
    /\ dir_pc' = "raised"
    /\ UNCHANGED <<fs, listing, output_dir, idx, success_count, failed_count, cv_pc,
                   input_file, output_file, temp_file, result, returned, hist,
                   sanVars, asmVars>>

\* Lines 186-187: an entry that is not an MEI file is passed over.
SkipEntry ==
    /\ dir_pc = "loop" /\ cv_pc = "idle" /\ idx <= Len(listing)
    /\ ~IsMeiFile(listing[idx])
    /\ idx' = idx + 1
    /\ UNCHANGED <<fs, listing, output_dir, dir_pc, success_count, failed_count, cv_pc,
                   input_file, output_file, temp_file, result, returned, hist,
                   sanVars, asmVars>>

\* Lines 186-196 and 86-91: convert_mei_to_midi is called for an MEI entry.
CallConvert ==
    /\ dir_pc = "loop" /\ cv_pc = "idle" /\ idx <= Len(listing)
    /\ IsMeiFile(listing[idx])
    /\ input_file' = join(input_dir, listing[idx])
    /\ output_file' = OutputPathOf(listing[idx], output_dir)
    /\ temp_file' = None
    /\ result' = None
    /\ cv_pc' = "read"
    /\ hist' = [hist EXCEPT !.attempted = Append(@, listing[idx]),
                            !.tempCreated = FALSE, !.midiWritten = FALSE,
                            !.read = Truncated]
    /\ UNCHANGED <<fs, listing, output_dir, dir_pc, idx, success_count, failed_count,
                   returned, sanVars, asmVars>>

\* An exception at cv_pc: control moves as AfterRaise says; the handler of
\* lines 158-161 returns None, the inner handlers set result to None.
RaiseAt(step) ==
    /\ cv_pc' = AfterRaise(step)
    /\ result' = IF AfterRaise(step) = "cleanup" THEN None ELSE result
    /\ returned' = IF AfterRaise(step) = "returned" THEN Append(returned, None) ELSE returned

\* Lines 94-95: the input is read.
ReadInput ==
    /\ cv_pc = "read" /\ Exists(fs, input_file)
    /\ hist' = [hist EXCEPT !.read = fs[input_file]]
    /\ cv_pc' = "open_temp"
    /\ UNCHANGED <<fs, listing, output_dir, dir_pc, idx, success_count, failed_count,
                   input_file, output_file, temp_file, result, returned, sanVars, asmVars>>

\* Lines 94-95: open or read raises (a missing or unreadable file).
ReadRaises ==
    /\ cv_pc = "read"
    /\ RaiseAt("read")
    /\ UNCHANGED <<fs, listing, output_dir, dir_pc, idx, success_count, failed_count,
                   input_file, output_file, temp_file, hist, sanVars, asmVars>>

\* Lines 98-102: the text is sanitized (remove_lyrics_from_mei does not
\* raise) and the temporary file is opened for writing, which creates or
\* truncates it.
OpenTemp ==
    /\ cv_pc = "open_temp"
    /\ temp_file' = TempFileOf(input_file)
    /\ fs' = WriteFile(fs, TempFileOf(input_file), Truncated)
    /\ hist' = [hist EXCEPT !.tempCreated = TRUE]
    /\ cv_pc' = "write_temp"
    /\ UNCHANGED <<listing, output_dir, dir_pc, idx, success_count, failed_count,
                   input_file, output_file, result, returned, sanVars, asmVars>>

\* Line 102: open raises; nothing was created.
OpenTempRaises ==
    /\ cv_pc = "open_temp"
    /\ temp_file' = TempFileOf(input_file)
    /\ RaiseAt("open_temp")
    /\ UNCHANGED <<fs, listing, output_dir, dir_pc, idx, success_count, failed_count,
                   input_file, output_file, hist, sanVars, asmVars>>

\* Line 103: the sanitized text is written and the file closed.
WriteTemp ==
    /\ cv_pc = "write_temp"
    /\ fs' = WriteFile(fs, temp_file, <<"sanitized", hist.read[2]>>)
    /\ cv_pc' = "parse"
    /\ UNCHANGED <<listing, output_dir, dir_pc, idx, success_count, failed_count,
                   input_file, output_file, temp_file, result, returned, hist,
                   sanVars, asmVars>>

\* Line 103: write (or the close that flushes it) raises; the file opened at
\* line 102 stays.
WriteTempRaises ==
    /\ cv_pc = "write_temp"
    /\ RaiseAt("write_temp")
    /\ UNCHANGED <<fs, listing, output_dir, dir_pc, idx, success_count, failed_count,
                   input_file, output_file, temp_file, hist, sanVars, asmVars>>

\* Line 107: music21 parses the temporary file.
ParseScore ==
    /\ cv_pc = "parse"
    /\ cv_pc' = "assemble"
    /\ UNCHANGED <<fs, listing, output_dir, dir_pc, idx, success_count, failed_count,
                   input_file, output_file, temp_file, result, returned, hist,
                   sanVars, asmVars>>

\* Lines 147-150
ParseRaises ==
    /\ cv_pc = "parse"
    /\ RaiseAt("parse")
    /\ hist' = [hist EXCEPT !.parseFailures = @ + 1]
    /\ UNCHANGED <<fs, listing, output_dir, dir_pc, idx, success_count, failed_count,
                   input_file, output_file, temp_file, sanVars, asmVars>>

\* Lines 111-132: the track is assembled.
AssembleTrack ==
    /\ cv_pc = "assemble"
    /\ cv_pc' = "write_out"
    /\ UNCHANGED <<fs, listing, output_dir, dir_pc, idx, success_count, failed_count,
                   input_file, output_file, temp_file, result, returned, hist,
                   sanVars, asmVars>>

\* Lines 142-145, from the assembly loops
AssembleRaises ==
    /\ cv_pc = "assemble"
    /\ RaiseAt("assemble")
    /\ UNCHANGED <<fs, listing, output_dir, dir_pc, idx, success_count, failed_count,
                   input_file, output_file, temp_file, hist, sanVars, asmVars>>

\* Lines 135-140: the MIDI file is written and result set.
WriteOutput ==
    /\ cv_pc = "write_out"
    /\ fs' = WriteFile(fs, output_file, <<"midi", hist.read[2]>>)
    /\ result' = output_file
    /\ hist' = [hist EXCEPT !.midiWritten = TRUE, !.written = @ + 1]
    /\ cv_pc' = "cleanup"
    /\ UNCHANGED <<listing, output_dir, dir_pc, idx, success_count, failed_count,
                   input_file, output_file, temp_file, returned, sanVars, asmVars>>

\* Lines 142-145, from mf.open (nothing written) or from mf.write or
\* mf.close (a partial file stays).
WriteOutputRaises ==
    /\ cv_pc = "write_out"
    /\ \E opened \in BOOLEAN :
          fs' = IF opened THEN WriteFile(fs, output_file, Truncated) ELSE fs
    /\ RaiseAt("write_out")
    /\ UNCHANGED <<listing, output_dir, dir_pc, idx, success_count, failed_count,
                   input_file, output_file, temp_file, hist, sanVars, asmVars>>

\* Something other than this program removes the temporary file before the
\* cleanup looks for it (the case the guard of line 153 is written for).
TempVanishes ==
    /\ cv_pc = "cleanup" /\ Exists(fs, temp_file)
    /\ fs' = RemoveFile(fs, temp_file)
    /\ UNCHANGED <<listing, output_dir, dir_pc, idx, success_count, failed_count, cv_pc,
                   input_file, output_file, temp_file, result, returned, hist,
                   sanVars, asmVars>>

\* Lines 153-156: the temporary file is removed when it exists, and result
\* is returned.
CleanupAndReturn ==
    /\ cv_pc = "cleanup"
    /\ fs' = IF Exists(fs, temp_file) THEN RemoveFile(fs, temp_file) ELSE fs
    /\ returned' = Append(returned, result)
    /\ cv_pc' = "returned"
    /\ UNCHANGED <<listing, output_dir, dir_pc, idx, success_count, failed_count,
                   input_file, output_file, temp_file, result, hist, sanVars, asmVars>>

\* Line 154: os.remove raises.
RemoveRaises ==
    /\ cv_pc = "cleanup" /\ Exists(fs, temp_file)
    /\ RaiseAt("cleanup")
    /\ UNCHANGED <<fs, listing, output_dir, dir_pc, idx, success_count, failed_count,
                   input_file, output_file, temp_file, hist, sanVars, asmVars>>

\* Lines 196-200: the returned value is tallied.
Tally ==
    /\ dir_pc = "loop" /\ cv_pc = "returned"
    /\ IF Last(returned) # None
       THEN success_count' = success_count + 1 /\ UNCHANGED failed_count
       ELSE failed_count' = failed_count + 1 /\ UNCHANGED success_count
    /\ idx' = idx + 1
    /\ cv_pc' = "idle"
    /\ UNCHANGED <<fs, listing, output_dir, dir_pc, input_file, output_file, temp_file,
                   result, returned, hist, sanVars, asmVars>>

\* Lines 202-203: the listing is exhausted; success_count is returned.
FinishBatch ==
    /\ dir_pc = "loop" /\ cv_pc = "idle" /\ idx > Len(listing)
    /\ dir_pc' = "done"
    /\ UNCHANGED <<fs, listing, output_dir, idx, success_count, failed_count, cv_pc,
                   input_file, output_file, temp_file, result, returned, hist,
                   sanVars, asmVars>>

AsmIdle ==
    /\ score = <<>> /\ asm_pc = "idle" /\ asm_i = 0 /\ mt_events = <<>> /\ asm_result = "none"

DirIdle ==
    /\ fs = <<>> /\ listing = <<>> /\ output_dir = None /\ dir_pc = "idle" /\ idx = 0
    /\ success_count = 0 /\ failed_count = 0 /\ cv_pc = "idle"
    /\ input_file = None /\ output_file = None /\ temp_file = None
    /\ result = None /\ returned = <<>> /\ hist = <<>>

InitSan == SanInit /\ AsmIdle /\ DirIdle

NextSan ==
    \/ Parse
    \/ NormalizeSyl
    \/ BeginVerses
    \/ RemoveVerse
    \/ BeginMeasures
    \/ RepairMeasure
    \/ Serialize
    \/ RaiseInside

SpecSan == InitSan /\ [][NextSan]_vars

InitAsm == AsmInit /\ SanIdle /\ DirIdle

NextAsm ==
    \/ AddTempo
    \/ BeginNotes
    \/ AddNoteOrSkipRest
    \/ WriteMidi
    \/ AsmRaise

SpecAsm == InitAsm /\ [][NextAsm]_vars

(***************************************************************************)
(* Properties of the track assembly (checked under SpecAsm).               *)
(***************************************************************************)
RECURSIVE ExpectedTempoEvents(_)
ExpectedTempoEvents(sc) ==
    IF sc = <<>> THEN <<>>
    ELSE (IF Head(sc).kind = "tempo"
          THEN <<[type |-> "SET_TEMPO", time |-> 0, data |-> Head(sc).val]>>
          ELSE <<>>) \o ExpectedTempoEvents(Tail(sc))

RECURSIVE ExpectedNoteEvents(_)
ExpectedNoteEvents(sc) ==
    IF sc = <<>> THEN <<>>
    ELSE (IF Head(sc).kind \in {"note", "chord"} THEN noteToMidiEvents(Head(sc)) ELSE <<>>)
         \o ExpectedNoteEvents(Tail(sc))

\* C6: the assembled track is one SET_TEMPO event at time 0 per tempo
\* indication, in the order of the flattened score, followed by the complete
\* event group of every note and chord, in the order of the flattened score;
\* rests (and other objects) contribute nothing and nothing is translated twice.
C6_TrackOrder ==
    asm_result = "ok" =>
        mt_events = ExpectedTempoEvents(score) \o ExpectedNoteEvents(score)

\* A written track of a score with a rest, then a note, then a tempo indication.
C6_Witness ==
    /\ asm_result = "ok"
    /\ Len(score) = 3
    /\ score[1].kind = "rest" /\ score[2].kind = "note" /\ score[3].kind = "tempo"
    /\ Len(mt_events) = 5

InitBatch == DirInit /\ SanIdle /\ AsmIdle

NextBatch ==
    \/ NotADirectory
    \/ StartBatch
    \/ MakedirsRaises
    \/ SkipEntry
    \/ CallConvert
    \/ ReadInput
    \/ ReadRaises
    \/ OpenTemp
    \/ OpenTempRaises
    \/ WriteTemp
    \/ WriteTempRaises
    \/ ParseScore
    \/ ParseRaises
    \/ AssembleTrack
    \/ AssembleRaises
    \/ WriteOutput
    \/ WriteOutputRaises
    \/ TempVanishes
    \/ CleanupAndReturn
    \/ RemoveRaises
    \/ Tally
    \/ FinishBatch

SpecBatch == InitBatch /\ [][NextBatch]_vars

(***************************************************************************)
(* Properties of process_directory and convert_mei_to_midi (checked under  *)
(* SpecBatch).                                                             *)
(***************************************************************************)
RECURSIVE MeiEntries(_)
MeiEntries(names) ==
    IF names = <<>> THEN <<>>
    ELSE (IF IsMeiFile(Head(names)) THEN <<Head(names)>> ELSE <<>>) \o MeiEntries(Tail(names))

RECURSIVE CountNotNone(_)
CountNotNone(seq) ==
    IF seq = <<>> THEN 0
    ELSE (IF Head(seq) # None THEN 1 ELSE 0) + CountNotNone(Tail(seq))

\* C7: no failure inside convert_mei_to_midi leaves the call as an exception;
\* when the batch ends, the MEI entries of the listing were each converted
\* once, in the listing's order, nothing else was, and success_count is the
\* number of calls that returned a path, failed_count the number of the others.
C7_FailuresStayInDocument ==
    /\ cv_pc # "raised"
    /\ dir_pc = "raised" => hist.attempted = <<>>
    /\ (dir_pc = "done" /\ hist.isdir) =>
          /\ hist.attempted = MeiEntries(listing)
          /\ Len(returned) = Len(hist.attempted)
          /\ success_count = CountNotNone(returned)
          /\ success_count + failed_count = Len(MeiEntries(listing))

\* A finished batch of three MEI files, one of which failed in the external
\* parse and nowhere else: the count returned is 2.
C7_Witness ==
    /\ dir_pc = "done"
    /\ Len(MeiEntries(listing)) = 3
    /\ hist.parseFailures = 1
    /\ failed_count = 1
    /\ success_count = 2

\* C8 as claimed: when convert_mei_to_midi returns, the temporary file it
\* created for the document no longer exists, whichever step failed.
C8_TempFileGoneAtReturn ==
    (cv_pc = "returned" /\ hist.tempCreated) => ~Exists(fs, temp_file)

\* C9 as claimed: a call that wrote its MIDI file returns the output path
\* whether or not the temporary file was there and could be deleted, and the
\* batch counts every document whose MIDI file was written as a success.
C9_CleanupDoesNotChangeOutcome ==
    /\ (cv_pc = "returned" /\ hist.midiWritten) => Last(returned) = output_file
    /\ dir_pc = "done" => success_count = hist.written

\* C10 as claimed: throughout a batch, every MEI entry of the listing that
\* has not been converted yet is still in the directory with its original
\* content: no temporary file path is the path of a listed MEI input.
C10_InputsUntouched ==
    dir_pc = "loop" =>
        \A i \in 1..Len(listing) :
            (IsMeiFile(listing[i]) /\ (i > idx \/ (i = idx /\ cv_pc = "idle"))) =>
                /\ Exists(fs, join(input_dir, listing[i]))
                /\ fs[join(input_dir, listing[i])] = OriginalContent(listing[i])

====
